---- MODULE Spec2Model ----
(***************************************************************************)
(* Conditional character-level RNN name generator                         *)
(* (conditional_rnn/conditional-char-rnn.ipynb): the example encoder,     *)
(* the recurrent cell, the training loop and the sampler.                 *)
(*                                                                         *)
(* Conventions.  Python strings are sequences of one-character strings.   *)
(* Tensors are sequences of integers; code index k (0-based) is position  *)
(* k+1 of the sequence.  The singleton batch dimension of the tensors is  *)
(* dropped.  A call that raises is a result record with ok = FALSE.       *)
(***************************************************************************)
EXTENDS Integers, Sequences, FiniteSets, TLC

VARIABLES
    all_categories,   \* ordered list of category names
    category_lines,   \* category name -> list of lines
    ret,              \* the last function called on its own and what it returned
    rnn,              \* the model's weights (a parameter setting)
    updates,          \* number of optimizer updates applied to rnn so far
    pc,               \* "idle", "training", "sampling", "train_fault", "sample_fault"
    tr,               \* the last call of train: its arguments and what it did
    step,             \* loop variable of the training loop (0 before the loop)
    loss_avg,         \* running sum of the losses since the last checkpoint
    all_losses,       \* the per-checkpoint average losses
    printed,          \* the telemetry lines printed so far
    losses,           \* the loss returned by train at each completed step
    decode,           \* how sample picks the next index: "multinomial" or "greedy"
    s_category,       \* sample's argument category ("" before the first call)
    s_start_letter,   \* sample's argument start_letter
    s_category_tensor,\* sample's locals, while a call is running
    s_input,
    s_hidden,
    output_name,
    s_i,              \* sample's loop variable: iterations completed
    sample_calls,     \* the (cat, input, hidden) of each cell invocation of the call
    dropped,          \* whether dropout zeroed an activation during the call
    returned,         \* what the last completed call of sample returned
    first             \* the first completed greedy call in which dropout zeroed nothing

corpus == <<all_categories, category_lines>>

----------------------------------------------------------------------------
(* Bounds of the model *)

\* longest line (name) of the corpus and longest argument of an encoder call
MaxLen == 2

\* iterations of the training loop (10000 in the notebook), and the periods of
\* the telemetry line and of the checkpoint (500 and 500 in the notebook); the
\* last window of the loop is not full
n_steps == 5
print_every == 2
plot_every == 2

\* cap on the length of a generated name (20 in the notebook)
max_length == 3

\* calls of train the session makes outside the training loop
MaxTrainCalls == 1

(* The alphabet.  The notebook's all_letters holds 58 symbols            *)
(* (string.ascii_letters + " .,;'-"); the model keeps two of them.  "%"  *)
(* stands for every symbol that is not in all_letters.                   *)
all_letters == <<"A", "B">>
n_letters == Len(all_letters) + 1
EOS == n_letters - 1

Symbols == {"A", "B", "%"}
CategoryNames == {"X", "Y", "Z"}

----------------------------------------------------------------------------
(* Python and torch primitives used by the notebook *)

RECURSIVE StringsUpTo(_)
StringsUpTo(n) ==
    IF n = 0 THEN {<<>>}
    ELSE LET shorter == StringsUpTo(n - 1)
         IN  shorter \cup {Append(s, c) : s \in {t \in shorter : Len(t) = n - 1}, c \in Symbols}

Lines == StringsUpTo(MaxLen)

InAlphabet(line) == \A k \in 1..Len(line) : \E j \in 1..Len(all_letters) : all_letters[j] = line[k]

\* str.find of a one-character string: its 0-based index, or -1 when absent
find(letter) ==
    IF \E j \in 1..Len(all_letters) : all_letters[j] = letter
    THEN (CHOOSE j \in 1..Len(all_letters) :
              /\ all_letters[j] = letter
              /\ \A h \in 1..(j - 1) : all_letters[h] # letter) - 1
    ELSE -1

\* list.index: the 0-based index of the first occurrence; -1 stands for ValueError
index(list, x) ==
    IF \E j \in 1..Len(list) : list[j] = x
    THEN (CHOOSE j \in 1..Len(list) :
              /\ list[j] = x
              /\ \A h \in 1..(j - 1) : list[h] # x) - 1
    ELSE -1

\* torch.zeros(n)
zeros(n) == [j \in 1..n |-> 0]

\* torch integer indexing of a dimension of the given size: a negative index
\* counts from the end
wrap(k, size) == IF k < 0 THEN k + size ELSE k

\* tensor[k] = v on a one-dimensional tensor
setitem(tensor, k, v) == [tensor EXCEPT ![wrap(k, Len(tensor)) + 1] = v]

\* the elements of a list
Range(seq) == {seq[j] : j \in 1..Len(seq)}

Ok(v) == [ok |-> TRUE, val |-> v]
Raise == [ok |-> FALSE, val |-> <<>>]

----------------------------------------------------------------------------
(* The example encoder *)

\* variant: the category looked up the way letters are (absent gives -1, no raise)
categoryTensor_find(category) ==
    Ok(setitem(zeros(Len(all_categories)), index(all_categories, category), 1))

\* variant: the one is set one place before the category's index
categoryTensor_shifted(category) ==
    LET li == index(all_categories, category)
    IN  IF li < 0 THEN Raise
        ELSE Ok(setitem(zeros(Len(all_categories)), li - 1, 1))

categoryTensor(category) ==
    LET li == index(all_categories, category)
    IN  IF li < 0 THEN Raise
        ELSE Ok(setitem(zeros(Len(all_categories)), li, 1))

\* variant: an empty line is given one all-zero row
inputTensor_padded(line) ==
    IF Len(line) = 0 THEN Ok(<<zeros(n_letters)>>)
    ELSE Ok([li \in 1..Len(line) |-> setitem(zeros(n_letters), find(line[li]), 1)])

inputTensor(line) ==
    Ok([li \in 1..Len(line) |-> setitem(zeros(n_letters), find(line[li]), 1)])

\* variant: the targets start at the first letter (range(0, len(line)))
targetTensor_range0(line) ==
    Ok(Append([li \in 1..Len(line) |-> find(line[li])], n_letters - 1))

\* variant: the targets are not shifted (line[li - 1] for line[li])
targetTensor_unshifted(line) ==
    LET letter_indexes == IF Len(line) < 2 THEN <<>>
                          ELSE [li \in 1..(Len(line) - 1) |-> find(line[li])]
    IN  Ok(Append(letter_indexes, n_letters - 1))

\* range(1, len(line)) is empty for a line of fewer than two symbols
targetTensor(line) ==
    LET letter_indexes == IF Len(line) < 2 THEN <<>>
                          ELSE [li \in 1..(Len(line) - 1) |-> find(line[li + 1])]
    IN  Ok(Append(letter_indexes, n_letters - 1))

----------------------------------------------------------------------------
(* The recurrent cell.  A weight is an integer; the model's weights are   *)
(* one of the parameter settings of Weights, and Param gives the entries  *)
(* of the three affine maps under a setting.                              *)

\* width of the hidden vector (128 in the notebook)
hidden_size == 1

\* number of parameter settings the model distinguishes
NumWeights == 2

Weights == 0..(NumWeights - 1)

(* Entry (r, c) of a layer's weight matrix under setting w; column 0 is   *)
(* the bias.  C, A and H are the widths of the category, letter and       *)
(* hidden vectors.  Every entry is -1, 0 or 1:                            *)
(*   i2h (layer 1), over cat ++ input ++ hidden:                          *)
(*       w even: hidden'[r] = input[0];  w odd: hidden'[r] = 1 - hidden[r] *)
(*   i2o (layer 2), over cat ++ input ++ hidden:                          *)
(*       w even: output[r] = input[r];   w odd: output[r] = cat[r mod C]  *)
(*   o2o (layer 3), over output ++ hidden':                               *)
(*       a letter's row reads output rotated by w, the end marker's row   *)
(*       reads hidden'[0]                                                 *)
Param(w, layer, r, c) ==
    LET C == Len(all_categories)
        A == n_letters
    IN  IF layer = 1
        THEN IF w % 2 = 0
             THEN (IF c = C + 1 THEN 1 ELSE 0)
             ELSE (IF c = 0 THEN 1 ELSE IF c = C + A + r THEN -1 ELSE 0)
        ELSE IF layer = 2
        THEN IF w % 2 = 0
             THEN (IF c = C + r THEN 1 ELSE 0)
             ELSE (IF c = (r % C) + 1 THEN 1 ELSE 0)
        ELSE IF r < A
             THEN (IF c = ((r + w) % A) + 1 THEN 1 ELSE 0)
             ELSE (IF c = A + 1 THEN 1 ELSE 0)

RECURSIVE Dot(_, _, _, _, _)
Dot(w, layer, r, x, c) ==
    IF c = 0 THEN 0 ELSE Param(w, layer, r, c) * x[c] + Dot(w, layer, r, x, c - 1)

\* nn.Linear: out[r] = bias[r] + sum over c of weight[r][c] * x[c]
RECURSIVE Linear(_, _, _, _)
Linear(w, layer, x, out_size) ==
    IF out_size = 0 THEN <<>>
    ELSE Append(Linear(w, layer, x, out_size - 1),
                Param(w, layer, out_size, 0) + Dot(w, layer, out_size, x, Len(x)))

i2h(w, x) == Linear(w, 1, x, hidden_size)
i2o(w, x) == Linear(w, 2, x, n_letters)
o2o(w, x) == Linear(w, 3, x, n_letters)

\* the masks nn.Dropout can draw for a vector of n entries (1 keeps, 0 zeroes)
Masks(n) == [1..n -> {0, 1}]
KeepAll(n) == [j \in 1..n |-> 1]

\* variant: the module has been switched to evaluation mode
training_eval == FALSE

\* nn.Module.training: set by construction, and no cell of the notebook
\* calls rnn.eval() or rnn.train()
training == TRUE

\* nn.Dropout(0.1): in training mode a kept entry is scaled by 1/(1-p) = 10/9
\* and a dropped one is 0; values are carried in ninths, so that a kept entry
\* is 10 * x.  Outside training mode the input passes (9 * x in ninths).
dropout(x, mask) ==
    IF training THEN [j \in 1..Len(x) |-> 10 * x[j] * mask[j]]
    ELSE [j \in 1..Len(x) |-> 9 * x[j]]

Max(S) == CHOOSE m \in S : \A k \in S : k <= m

\* nn.LogSoftmax: x[j] - log(sum of exp(x[k])).  The normaliser is the same for
\* every entry; the model subtracts the largest entry in its place, which keeps
\* the order of the entries and makes every entry <= 0.
softmax(x) == LET top == Max(Range(x)) IN [j \in 1..Len(x) |-> x[j] - top]

\* RNN.forward up to the second projection
project(w, cat, input, hidden) ==
    LET input_combined == cat \o input \o hidden
        hidden1 == i2h(w, input_combined)
        output1 == i2o(w, input_combined)
        output_combined == output1 \o hidden1
    IN  [output |-> o2o(w, output_combined), hidden |-> hidden1]

\* RNN.forward from the dropout on, for the mask the dropout draws
finish(projected, mask) ==
    [output |-> softmax(dropout(projected.output, mask)), hidden |-> projected.hidden]

\* RNN.forward
forward(w, cat, input, hidden, mask) == finish(project(w, cat, input, hidden), mask)

\* variant: the hidden state does not start at zero
init_hidden_ones == [j \in 1..hidden_size |-> 1]

\* RNN.init_hidden
init_hidden == zeros(hidden_size)


\* random_training_pair and random_training_example, for the pair drawn
random_training_example(category, line) ==
    LET category_tensor == categoryTensor(category)
        input_line_tensor == inputTensor(line)
        target_line_tensor == targetTensor(line)
    IN  IF category_tensor.ok /\ input_line_tensor.ok /\ target_line_tensor.ok
        THEN Ok(<<category_tensor.val, input_line_tensor.val, target_line_tensor.val>>)
        ELSE Raise

----------------------------------------------------------------------------
(* Exact arithmetic on losses: a loss is a fraction [num, den] in lowest  *)
(* terms (the notebook computes in floating point; rounding is left out). *)

RECURSIVE GCD(_, _)
GCD(a, b) == IF b = 0 THEN a ELSE GCD(b, a % b)

Frac(n, d) == LET g == GCD(n, d) IN [num |-> n \div g, den |-> d \div g]
Zero == Frac(0, 1)
FracAdd(x, y) == Frac(x.num * y.den + y.num * x.den, x.den * y.den)
FracDiv(x, k) == Frac(x.num, x.den * k)

RECURSIVE FracSum(_)
FracSum(seq) == IF seq = <<>> THEN Zero ELSE FracAdd(FracSum(SubSeq(seq, 1, Len(seq) - 1)), seq[Len(seq)])

----------------------------------------------------------------------------
(* The trainer *)

\* variant: the end marker is not accepted as a target class
criterion_no_eos(output, target) ==
    IF target < 0 \/ target >= Len(output) - 1 THEN Raise
    ELSE Ok(0 - output[target + 1])

\* nn.NLLLoss on one prediction: minus the log-probability of the target
\* class; a target that is no class index raises
criterion(output, target) ==
    IF target < 0 \/ target >= Len(output) THEN Raise
    ELSE Ok(0 - output[target + 1])

\* variant: every invocation of the cell is given the initial hidden state
iterate_fresh_hidden(w, cat_t, input_t, target_t, i, acc) ==
    IF ~acc.ok THEN {acc}
    ELSE IF i >= Len(input_t)
    THEN {[acc EXCEPT !.ok = FALSE, !.events = Append(@, "IndexError")]}
    ELSE {LET out == forward(w, cat_t, input_t[i + 1], init_hidden, mask)
              l == criterion(out.output, target_t[i + 1])
              called == [acc EXCEPT !.calls = Append(@, [cat |-> cat_t, input |-> input_t[i + 1],
                                                          hidden |-> init_hidden]),
                                    !.events = Append(@, "cell"),
                                    !.hidden = out.hidden]
          IN  IF l.ok THEN [called EXCEPT !.loss = @ + l.val]
              ELSE [called EXCEPT !.ok = FALSE, !.events = Append(@, "criterion raises")]
          : mask \in Masks(n_letters)}

\* one iteration of the loop of train (0-based i) from the state acc of the
\* loop, for every dropout mask the cell can draw: the hidden state, the summed
\* loss, the (cat, input, hidden) of each invocation of the cell, and the events
\* in order
iterate(w, cat_t, input_t, target_t, i, acc) ==
    IF ~acc.ok THEN {acc}
    ELSE IF i >= Len(input_t)
    THEN {[acc EXCEPT !.ok = FALSE, !.events = Append(@, "IndexError")]}
    ELSE {LET out == forward(w, cat_t, input_t[i + 1], acc.hidden, mask)
              l == criterion(out.output, target_t[i + 1])
              called == [acc EXCEPT !.calls = Append(@, [cat |-> cat_t, input |-> input_t[i + 1],
                                                          hidden |-> acc.hidden]),
                                    !.events = Append(@, "cell"),
                                    !.hidden = out.hidden]
          IN  IF l.ok THEN [called EXCEPT !.loss = @ + l.val]
              ELSE [called EXCEPT !.ok = FALSE, !.events = Append(@, "criterion raises")]
          : mask \in Masks(n_letters)}

RECURSIVE unroll(_, _, _, _, _, _)
unroll(w, cat_t, input_t, target_t, i, accs) ==
    IF i >= Len(target_t) THEN accs
    ELSE unroll(w, cat_t, input_t, target_t, i + 1,
                UNION {iterate(w, cat_t, input_t, target_t, i, acc) : acc \in accs})

\* train: hidden reset, gradients zeroed, the unroll, then backward and the
\* optimizer update; the outcomes train can have (one per course of the
\* dropout draws), each with the loss per target position it returns
train(w, cat_t, input_t, target_t) ==
    LET start == [ok |-> TRUE, hidden |-> init_hidden, loss |-> 0,
                  calls |-> <<>>, events |-> <<"init_hidden", "zero_grad">>]
    IN  {IF done.ok
         THEN [ok |-> TRUE, calls |-> done.calls,
               events |-> done.events \o <<"backward", "optimizer.step">>,
               loss |-> Frac(done.loss, Len(target_t))]
         ELSE [ok |-> FALSE, calls |-> done.calls, events |-> done.events, loss |-> Zero]
         : done \in unroll(w, cat_t, input_t, target_t, 0, {start})}

\* what tr keeps of a call of train on the example of (category, line)
TrainRecord(category, line, target_t, r) ==
    [category |-> category, line |-> line, target |-> target_t, ok |-> r.ok,
     calls |-> r.calls, events |-> r.events, loss |-> r.loss]

NoTrain == [category |-> "", line |-> <<>>, target |-> <<>>, ok |-> TRUE,
            calls |-> <<>>, events |-> <<>>, loss |-> Zero]

----------------------------------------------------------------------------
(* The corpus.  A corpus has one or two categories; the first holds one  *)
(* line, any string of at most MaxLen symbols (a synthetic corpus need   *)
(* not have gone through unicode_to_ascii), the second two fixed names.  *)

CategoryLists == {<<"X">>, <<"X", "Y">>, <<"Y", "X">>}

LinesOf(category, line) == IF category = "X" THEN <<line>> ELSE <<<<"B">>, <<"B", "A">>>>

CorpusInit(lists, lines) ==
    \E cats \in lists, line \in lines :
        /\ all_categories = cats
        /\ category_lines = [c \in Range(cats) |-> LinesOf(c, line)]

n_categories == Len(all_categories)

NoCall == [fn |-> "none", arg |-> <<>>, res |-> Raise]

(* Loading the corpus.  A path is a sequence of tokens: "/" and "." are   *)
(* the separators, and a name token such as "X" stands for a run of       *)
(* characters that holds neither.  A file is a path with the raw lines    *)
(* the file holds.                                                        *)

\* most files the directory holds
MaxFiles == 2

\* paths that glob.glob('../data/names/*.txt') can return
FileNames ==
    {<<"names", "/", "X", ".", "txt">>,
     <<"names", "/", "Y", ".", "txt">>,
     <<"names", "/", "Z", ".", "txt">>,
     <<"names", "/", "X", ".", "Y", ".", "txt">>,
     <<"names", "/", "Y", ".", "X", ".", "txt">>,
     <<"names", "/", "X", ".", "Z", ".", "txt">>}

\* what a file can hold
FileLines == {<<<<"A">>>>, <<<<"B", "%">>, <<"B", "A">>>>}

\* the lists glob.glob can return: distinct paths, in any order
RECURSIVE GlobsOfLen(_)
GlobsOfLen(n) ==
    IF n = 0 THEN {<<>>}
    ELSE {Append(files, [name |-> name, lines |-> lines]) :
              files \in GlobsOfLen(n - 1),
              name \in FileNames,
              lines \in FileLines}

Globs ==
    {files \in UNION {GlobsOfLen(n) : n \in 0..MaxFiles} :
        \A j, k \in 1..Len(files) : j # k => files[j].name # files[k].name}

\* str.split(sep): the pieces between the separators
RECURSIVE split(_, _)
split(str, sep) ==
    IF \A k \in 1..Len(str) : str[k] # sep THEN <<str>>
    ELSE LET k == CHOOSE j \in 1..Len(str) :
                      str[j] = sep /\ \A h \in 1..(j - 1) : str[h] # sep
         IN  <<SubSeq(str, 1, k - 1)>> \o split(SubSeq(str, k + 1, Len(str)), sep)

\* the string a piece stands for (a piece of the paths above is one name
\* token, or empty)
text(piece) == IF piece = <<>> THEN "" ELSE piece[1]

\* filename.split('/')[-1].split('.')[0]
category_of(filename) ==
    LET pieces == split(filename, "/")
    IN  text(split(pieces[Len(pieces)], ".")[1])

\* unicode_to_ascii: the symbols of all_letters are kept, the others dropped
unicode_to_ascii(str) ==
    LET kept(c) == \E j \in 1..Len(all_letters) : all_letters[j] = c
    IN  SelectSeq(str, kept)

read_lines(file) == [k \in 1..Len(file.lines) |-> unicode_to_ascii(file.lines[k])]

\* the loop over the first n files of the list: all_categories and
\* category_lines as it leaves them
RECURSIVE load(_, _)
load(files, n) ==
    IF n = 0 THEN [all_categories |-> <<>>, category_lines |-> [c \in {} |-> <<>>]]
    ELSE LET before == load(files, n - 1)
             category == category_of(files[n].name)
             lines == read_lines(files[n])
         IN  [all_categories |-> Append(before.all_categories, category),
              category_lines |-> [c \in (DOMAIN before.category_lines) \cup {category} |->
                                     IF c = category THEN lines ELSE before.category_lines[c]]]

----------------------------------------------------------------------------
(* The sampler *)

\* torch.multinomial(output_dist, 1) with output_dist = exp(output): any index
\* whose probability is positive, and exp of a log-probability is positive
multinomial(output) == {k \in 0..(Len(output) - 1) : TRUE}

\* output.topk(1): the index of the largest entry (the lowest such index)
topk(output) ==
    CHOOSE k \in 0..(Len(output) - 1) :
        /\ \A j \in 1..Len(output) : output[j] <= output[k + 1]
        /\ \A j \in 1..k : output[j] < output[k + 1]

\* variant: the greedy decoding still draws
draw_always(output) == multinomial(output)

\* the indices the decoding in force can pick from output
draw(output) == IF decode = "greedy" THEN {topk(output)} ELSE multinomial(output)

\* the start strings sample is called with: the empty string, every single
\* symbol, and a two-letter seed
Seeds == StringsUpTo(1) \cup {<<"A", "B">>}

\* what one invocation of the cell by sample can come to, over the masks
\* dropout can draw: the indices the decoding can pick, the new hidden state,
\* and whether an activation was zeroed
cell_outcomes(w, cat, letter_t, h) ==
    {LET out == forward(w, cat, letter_t, h, mask)
     IN  [picks |-> draw(out.output), hidden |-> out.hidden,
          zeroed |-> training /\ mask # KeepAll(n_letters)]
     : mask \in Masks(n_letters)}

\* variant: one iteration too many
in_range_inclusive(k) == k <= max_length

\* variant: one iteration too few
in_range_short(k) == k < max_length - 1

\* range(max_length): whether iteration number k (0-based) runs
in_range(k) == k < max_length

NoRun == [rnn |-> -1, updates |-> 0, category |-> "", start_letter |-> <<>>, out |-> <<>>]

telemetry == <<step, loss_avg, all_losses, printed, losses>>

sampler == <<s_category, s_start_letter, s_category_tensor, s_input, s_hidden, output_name, s_i,
             sample_calls, dropped, returned, first>>

\* variant: the end marker is written out at the end of the returned string
Return_with_marker(name, clean) ==
    /\ returned' = Ok(Append(name, "$"))
    /\ first' = IF decode = "greedy" /\ clean /\ first = NoRun
                THEN [rnn |-> rnn, updates |-> updates, category |-> s_category',
                      start_letter |-> s_start_letter', out |-> name]
                ELSE first
    /\ pc' = "idle"
    /\ s_category_tensor' = <<>>
    /\ s_input' = <<>>
    /\ s_hidden' = <<>>
    /\ output_name' = <<>>
    /\ s_i' = 0

\* variant: only the generated part of the buffer is returned
Return_generated(name, clean) ==
    /\ returned' = Ok(SubSeq(name, Len(s_start_letter') + 1, Len(name)))
    /\ first' = IF decode = "greedy" /\ clean /\ first = NoRun
                THEN [rnn |-> rnn, updates |-> updates, category |-> s_category',
                      start_letter |-> s_start_letter', out |-> name]
                ELSE first
    /\ pc' = "idle"
    /\ s_category_tensor' = <<>>
    /\ s_input' = <<>>
    /\ s_hidden' = <<>>
    /\ output_name' = <<>>
    /\ s_i' = 0

\* return output_name: the locals go, the result is kept
Return(name, clean) ==
    /\ returned' = Ok(name)
    /\ first' = IF decode = "greedy" /\ clean /\ first = NoRun
                THEN [rnn |-> rnn, updates |-> updates, category |-> s_category',
                      start_letter |-> s_start_letter', out |-> name]
                ELSE first
    /\ pc' = "idle"
    /\ s_category_tensor' = <<>>
    /\ s_input' = <<>>
    /\ s_hidden' = <<>>
    /\ output_name' = <<>>
    /\ s_i' = 0

\* sample up to its loop: the tensors of the arguments, the hidden state and
\* the output buffer
SampleCall ==
    /\ pc = "idle"
    /\ tr' = NoTrain
    /\ \E c \in CategoryNames, s \in Seeds :
         LET ct == categoryTensor(c)
         IN  /\ s_category' = c
             /\ s_start_letter' = s
             /\ sample_calls' = <<>>
             /\ dropped' = FALSE
             /\ IF ~ct.ok
                THEN /\ pc' = "sample_fault"
                     /\ returned' = Raise
                     /\ UNCHANGED <<s_category_tensor, s_input, s_hidden, output_name, s_i, first>>
                ELSE IF ~in_range(0)
                THEN Return(s, TRUE)
                ELSE /\ pc' = "sampling"
                     /\ s_category_tensor' = ct.val
                     /\ s_input' = inputTensor(s).val
                     /\ s_hidden' = init_hidden
                     /\ output_name' = s
                     /\ s_i' = 0
                     /\ returned' = Raise
                     /\ UNCHANGED first
    /\ UNCHANGED <<corpus, ret, rnn, updates, telemetry, decode>>

\* one iteration of sample's loop: the cell on input[0], the next index, then
\* either the break or the letter appended and made the next input; the
\* iteration that ends the loop also returns
SampleIteration ==
    /\ pc = "sampling"
    /\ in_range(s_i)
    /\ IF Len(s_input) = 0
       THEN /\ pc' = "sample_fault"
            /\ UNCHANGED <<s_category, s_start_letter, s_category_tensor, s_input, s_hidden, output_name,
                           s_i, sample_calls, dropped, returned, first>>
       ELSE \E o \in cell_outcomes(rnn, s_category_tensor, s_input[1], s_hidden) :
              LET zeroed == dropped \/ o.zeroed
              IN  \E topi \in o.picks :
                    /\ sample_calls' = Append(sample_calls, [cat |-> s_category_tensor,
                                                              input |-> s_input[1], hidden |-> s_hidden])
                    /\ dropped' = zeroed
                    /\ UNCHANGED <<s_category, s_start_letter>>
                    /\ IF topi = n_letters - 1
                       THEN Return(output_name, ~zeroed)
                       ELSE LET letter == all_letters[topi + 1]
                                name == Append(output_name, letter)
                            IN  IF in_range(s_i + 1)
                                THEN /\ output_name' = name
                                     /\ s_input' = inputTensor(<<letter>>).val
                                     /\ s_hidden' = o.hidden
                                     /\ s_i' = s_i + 1
                                     /\ UNCHANGED <<pc, s_category_tensor, returned, first>>
                                ELSE Return(name, ~zeroed)
    /\ UNCHANGED <<corpus, ret, rnn, updates, tr, telemetry, decode>>

\* variant: the optimizer update is applied per position inside the loop, so
\* that a call that raises after an invocation of the cell has changed the
\* weights
TrainCall_eager ==
    /\ pc = "idle"
    /\ updates < MaxTrainCalls
    /\ \E c \in Range(all_categories) :
         \E line \in Range(category_lines[c]) :
           LET ex == random_training_example(c, line).val
           IN  \E r \in train(rnn, ex[1], ex[2], ex[3]), w2 \in Weights :
                 /\ tr' = TrainRecord(c, line, ex[3], r)
                 /\ IF r.ok
                    THEN /\ rnn' = w2
                         /\ updates' = updates + 1
                         /\ UNCHANGED pc
                    ELSE /\ pc' = "train_fault"
                         /\ rnn' = IF r.calls # <<>> THEN w2 ELSE rnn
                         /\ UNCHANGED updates
    /\ s_category' = ""
    /\ s_start_letter' = <<>>
    /\ sample_calls' = <<>>
    /\ dropped' = FALSE
    /\ returned' = Raise
    /\ UNCHANGED <<corpus, ret, telemetry, decode, s_category_tensor, s_input, s_hidden,
                   output_name, s_i, first>>

\* train(*random_training_example()) called on its own; tr and the sampler's
\* record describe the latest call, so the sampler's record is cleared
TrainCall ==
    /\ pc = "idle"
    /\ updates < MaxTrainCalls
    /\ \E c \in Range(all_categories) :
         \E line \in Range(category_lines[c]) :
           LET ex == random_training_example(c, line).val
           IN  \E r \in train(rnn, ex[1], ex[2], ex[3]), w2 \in Weights :
                 /\ tr' = TrainRecord(c, line, ex[3], r)
                 /\ IF r.ok
                    THEN /\ rnn' = w2
                         /\ updates' = updates + 1
                         /\ UNCHANGED pc
                    ELSE /\ pc' = "train_fault"
                         /\ UNCHANGED <<rnn, updates>>
    /\ s_category' = ""
    /\ s_start_letter' = <<>>
    /\ sample_calls' = <<>>
    /\ dropped' = FALSE
    /\ returned' = Raise
    /\ UNCHANGED <<corpus, ret, telemetry, decode, s_category_tensor, s_input, s_hidden,
                   output_name, s_i, first>>

\* sample from iteration i of its loop on, run to its end: what the call can
\* come to (a returned string, or a raise), over the masks dropout can draw and
\* the indices the decoding can pick
RECURSIVE sample_loop(_, _, _, _, _, _)
sample_loop(w, cat_t, input, hidden, name, i) ==
    IF ~in_range(i) THEN {Ok(name)}
    ELSE IF Len(input) = 0 THEN {Raise}
    ELSE UNION {UNION {IF topi = n_letters - 1 THEN {Ok(name)}
                       ELSE LET letter == all_letters[topi + 1]
                            IN  sample_loop(w, cat_t, inputTensor(<<letter>>).val, o.hidden,
                                            Append(name, letter), i + 1)
                       : topi \in o.picks}
                : o \in cell_outcomes(w, cat_t, input[1], hidden)}

\* sample(category, start_letter) as one call
sample(category, start_letter) ==
    LET category_tensor == categoryTensor(category)
    IN  IF ~category_tensor.ok THEN {Raise}
        ELSE sample_loop(rnn, category_tensor.val, inputTensor(start_letter).val, init_hidden,
                         start_letter, 0)

\* the first n iterations of the loop of samples: the lines printed, and
\* whether a call of sample raised (which ends the loop)
RECURSIVE samples_loop(_, _, _)
samples_loop(category, start_letters, n) ==
    IF n = 0 THEN {Ok(<<>>)}
    ELSE LET results == sample(category, <<start_letters[n]>>)
         IN  UNION {IF ~before.ok THEN {before}
                    ELSE {IF r.ok THEN Ok(Append(before.val, r.val))
                          ELSE [ok |-> FALSE, val |-> before.val]
                          : r \in results}
                    : before \in samples_loop(category, start_letters, n - 1)}

\* variant: the string of seeds is taken for one seed
samples_whole(category, start_letters) ==
    {IF r.ok THEN Ok(<<r.val>>) ELSE [ok |-> FALSE, val |-> <<>>]
     : r \in sample(category, start_letters)}

\* samples(category, start_letters): one call of sample per symbol of
\* start_letters, each result printed
samples(category, start_letters) == samples_loop(category, start_letters, Len(start_letters))

\* the strings of seeds samples is called with
StartLetters == {<<>>, <<"A">>, <<"%">>, <<"A", "B">>, <<"B", "A">>, <<"%", "A">>}

----------------------------------------------------------------------------
(* The state after the notebook's definitions have run *)

\* everything but the corpus
Fresh ==
    /\ ret = NoCall
    /\ rnn \in Weights
    /\ updates = 0
    /\ pc = "idle"
    /\ tr = NoTrain
    /\ step = 0
    /\ loss_avg = Zero
    /\ all_losses = <<>>
    /\ printed = <<>>
    /\ losses = <<>>
    /\ s_category = ""
    /\ s_start_letter = <<>>
    /\ s_category_tensor = <<>>
    /\ s_input = <<>>
    /\ s_hidden = <<>>
    /\ output_name = <<>>
    /\ s_i = 0
    /\ sample_calls = <<>>
    /\ dropped = FALSE
    /\ returned = Raise
    /\ first = NoRun

Start(lists, lines) == CorpusInit(lists, lines) /\ Fresh

\* the notebook as published draws the next index from the output distribution
\* (one category with any line, or any category list with the line "A")
Init ==
    /\ Start({<<"X">>}, Lines) \/ Start(CategoryLists, {<<"A">>})
    /\ decode = "multinomial"

----------------------------------------------------------------------------
(* Specification SpecEnc: the encoder functions called on their own *)

notEnc == <<rnn, updates, pc, tr, telemetry, decode, sampler>>

CallCategoryTensor ==
    \E category \in CategoryNames :
        /\ ret' = [fn |-> "categoryTensor", arg |-> category, res |-> categoryTensor(category)]
        /\ UNCHANGED <<corpus, notEnc>>

CallInputTensor ==
    \E line \in Lines :
        /\ ret' = [fn |-> "inputTensor", arg |-> line, res |-> inputTensor(line)]
        /\ UNCHANGED <<corpus, notEnc>>

CallTargetTensor ==
    \E line \in Lines :
        /\ ret' = [fn |-> "targetTensor", arg |-> line, res |-> targetTensor(line)]
        /\ UNCHANGED <<corpus, notEnc>>

CallRandomTrainingExample ==
    \E category \in Range(all_categories) :
        \E line \in Range(category_lines[category]) :
            /\ ret' = [fn |-> "random_training_example", arg |-> line,
                       res |-> random_training_example(category, line)]
            /\ UNCHANGED <<corpus, notEnc>>

NextEnc ==
    \/ CallCategoryTensor
    \/ CallInputTensor
    \/ CallTargetTensor
    \/ CallRandomTrainingExample

vars == <<all_categories, category_lines, ret, rnn, updates, pc, tr, telemetry, decode, sampler>>

\* every category list with every line
InitEnc == Start(CategoryLists, Lines) /\ decode = "multinomial"

SpecEnc == InitEnc /\ [][NextEnc]_vars

----------------------------------------------------------------------------
(* Specification SpecTrain: the training loop *)

\* variant: the running sum is zeroed one step early
next_loss_avg_early(k, sum) == IF (k + 1) % plot_every = 0 THEN Zero ELSE sum

\* variant: the running sum is never zeroed
next_loss_avg_kept(k, sum) == sum

\* loss_avg after iteration k, sum being loss_avg + loss: zeroed at a checkpoint
next_loss_avg(k, sum) == IF k % plot_every = 0 THEN Zero ELSE sum

\* one iteration of the loop: an example is drawn, train runs on it with the
\* dropout masks its cell invocations draw and leaves the weights w2, the
\* loss is accumulated, and the telemetry line and the checkpoint happen at
\* their periods; a fault in train ends the run
TrainingIteration ==
    /\ pc \in {"idle", "training"}
    /\ step < n_steps
    /\ \E category \in Range(all_categories) :
         \E line \in Range(category_lines[category]) :
           LET ex == random_training_example(category, line).val
           IN  \E r \in train(rnn, ex[1], ex[2], ex[3]), w2 \in Weights :
                 LET loss == r.loss
                     sum == FracAdd(loss_avg, loss)
                 IN  /\ step' = step + 1
                     /\ tr' = TrainRecord(category, line, ex[3], r)
                     /\ IF r.ok
                        THEN /\ rnn' = w2
                             /\ updates' = updates + 1
                             /\ losses' = Append(losses, loss)
                             /\ printed' = IF step' % print_every = 0
                                           THEN Append(printed, [step |-> step',
                                                                 percent |-> (step' * 100) \div n_steps,
                                                                 loss |-> loss])
                                           ELSE printed
                             /\ all_losses' = IF step' % plot_every = 0
                                              THEN Append(all_losses, FracDiv(sum, plot_every))
                                              ELSE all_losses
                             /\ loss_avg' = next_loss_avg(step', sum)
                             /\ pc' = IF step' = n_steps THEN "idle" ELSE "training"
                        ELSE /\ pc' = "train_fault"
                             /\ UNCHANGED <<rnn, updates, losses, printed, all_losses, loss_avg>>
    /\ UNCHANGED <<corpus, ret, decode, sampler>>

NextTrain == TrainingIteration

\* the training loop is run on the corpora whose first category holds the
\* empty line or a one-symbol line
InitTrain == Start(CategoryLists, StringsUpTo(1)) /\ decode = "multinomial"

SpecTrain == InitTrain /\ [][NextTrain]_vars

----------------------------------------------------------------------------
(* Specification Spec: a session that calls train and sample *)

Next ==
    \/ TrainCall
    \/ SampleCall
    \/ SampleIteration

Spec == Init /\ [][Next]_vars

----------------------------------------------------------------------------
(* Specification SpecGreedy: the session with the greedy decoding of      *)
(* sample ("or greedy decode") in place of the draw                       *)

\* the corpus matters to train alone: one corpus line is enough here
InitGreedy == Start(CategoryLists, {<<"A">>}) /\ decode = "greedy"

SpecGreedy == InitGreedy /\ [][Next]_vars

----------------------------------------------------------------------------
(* Specification SpecSamples: samples called on a model, the call run to  *)
(* its end; ret keeps the arguments and the lines the call printed.  A    *)
(* behaviour holds one call: samples changes nothing of the model, so a   *)
(* later call has the outcomes of the first.                              *)

CallSamples ==
    /\ ret = NoCall
    /\ \E category \in CategoryNames, start_letters \in StartLetters :
         \E r \in samples(category, start_letters) :
             /\ ret' = [fn |-> "samples", arg |-> <<category, start_letters>>, res |-> r]
             /\ UNCHANGED <<corpus, notEnc>>

NextSamples == CallSamples

InitSamples == Start(CategoryLists, {<<"A">>}) /\ decode = "multinomial"

SpecSamples == InitSamples /\ [][NextSamples]_vars

----------------------------------------------------------------------------
(* Specification SpecLoad: the corpus is loaded from the files glob       *)
(* returns; ret keeps the list of files                                   *)

LoadCorpus ==
    /\ ret = NoCall
    /\ \E files \in Globs :
         LET loaded == load(files, Len(files))
         IN  /\ all_categories' = loaded.all_categories
             /\ category_lines' = loaded.category_lines
             /\ ret' = [fn |-> "glob", arg |-> files, res |-> Ok(<<>>)]
    /\ UNCHANGED notEnc

NextLoad == LoadCorpus

InitLoad ==
    /\ all_categories = <<>>
    /\ category_lines = [c \in {} |-> <<>>]
    /\ Fresh
    /\ decode = "multinomial"

SpecLoad == InitLoad /\ [][NextLoad]_vars

----------------------------------------------------------------------------
(* Specification SpecFrame: calls of train, then one call of samples, of  *)
(* an encoder function or of the cell, each call run to its end.  A       *)
(* behaviour ends with the first call that is not train: that call is to  *)
(* leave the model and the corpus as they are, so what can follow it is   *)
(* what could have followed the calls of train before it.                 *)

\* rnn(category_tensor, input, hidden) called on its own, from the initial
\* hidden state
CallCell ==
    \E category \in Range(all_categories), letter \in Symbols, mask \in Masks(n_letters) :
        /\ ret' = [fn |-> "rnn", arg |-> <<category, letter>>,
                   res |-> Ok(forward(rnn, categoryTensor(category).val,
                                      inputTensor(<<letter>>).val[1], init_hidden, mask))]
        /\ UNCHANGED <<corpus, notEnc>>

NextFrame ==
    /\ ret = NoCall
    /\ \/ TrainCall
       \/ CallSamples
       \/ CallCategoryTensor
       \/ CallInputTensor
       \/ CallTargetTensor
       \/ CallCell

\* two categories; the line of the first has a symbol outside the alphabet
\* in its second place, so that train raises on it after one invocation of
\* the cell
InitFrame == Start({<<"X", "Y">>}, {<<"A", "%">>}) /\ decode = "multinomial"

SpecFrame == InitFrame /\ [][NextFrame]_vars

----------------------------------------------------------------------------
(* Claims *)

\* the (0-based) alphabet index of a symbol of all_letters
IsIndexOf(k, letter) == k \in 0..(Len(all_letters) - 1) /\ all_letters[k + 1] = letter

\* row is one-hot with its one at (0-based) index k
OneHotAt(row, k) == \A j \in 1..Len(row) : row[j] = IF j = k + 1 THEN 1 ELSE 0

Example == ret.fn = "random_training_example"

\* C1 as stated: for every alphabet-only string, the empty one included,
\* targetTensor has as many entries as inputTensor has rows and ends in EOS
C1_Original ==
    (Example /\ InAlphabet(ret.arg)) =>
        /\ Len(ret.res.val[3]) = Len(ret.res.val[2])
        /\ ret.res.val[3][Len(ret.res.val[3])] = n_letters - 1

\* C1 amended: for every alphabet-only string of length >= 1 targetTensor has
\* as many entries as inputTensor has rows and its last entry is EOS; for the
\* empty string targetTensor is the single entry EOS and inputTensor has no row
C1_TargetMatchesInput ==
    (Example /\ InAlphabet(ret.arg)) =>
        /\ ret.res.ok
        /\ ret.res.val[3][Len(ret.res.val[3])] = n_letters - 1
        /\ Len(ret.arg) >= 1 => Len(ret.res.val[3]) = Len(ret.res.val[2])
        /\ Len(ret.arg) = 0 => (Len(ret.res.val[3]) = 1 /\ Len(ret.res.val[2]) = 0)

C1_Witness == Example /\ InAlphabet(ret.arg) /\ Len(ret.arg) >= 2

\* C2: for an alphabet-only string of length L >= 1 the target is the input
\* shifted by one: input row i encodes line[i], target i is the index of
\* line[i+1] for i < L, and the last target is EOS
C2_TargetIsShiftedInput ==
    (Example /\ InAlphabet(ret.arg) /\ Len(ret.arg) >= 1) =>
        LET line == ret.arg
            input_t == ret.res.val[2]
            target_t == ret.res.val[3]
        IN  /\ Len(target_t) = Len(line)
            /\ \A k \in 1..Len(line) :
                 /\ \E a \in 0..(Len(all_letters) - 1) :
                        IsIndexOf(a, line[k]) /\ OneHotAt(input_t[k], a)
                 /\ IF k < Len(line) THEN IsIndexOf(target_t[k], line[k + 1])
                    ELSE target_t[k] = n_letters - 1

C2_Witness ==
    Example /\ InAlphabet(ret.arg) /\ Len(ret.arg) >= 2 /\ ret.arg[1] # ret.arg[2]

\* C3: for a category of all_categories categoryTensor is a vector of length
\* n_categories, one-hot, with its one at the category's position in the list
C3_CategoryOneHot ==
    (ret.fn = "categoryTensor" /\ ret.arg \in Range(all_categories)) =>
        /\ ret.res.ok
        /\ Len(ret.res.val) = n_categories
        /\ \A k \in 1..n_categories :
             ret.res.val[k] = IF /\ all_categories[k] = ret.arg
                                 /\ \A h \in 1..(k - 1) : all_categories[h] # ret.arg
                              THEN 1 ELSE 0

C3_Witness ==
    /\ ret.fn = "categoryTensor"
    /\ Len(all_categories) = 2
    /\ ret.arg = all_categories[2]
    /\ ret.res.ok

\* C4 as stated: for every string inputTensor has one row per symbol, each
\* one-hot at the alphabet index of its symbol, and no row has its one at EOS
C4_Claim ==
    ret.fn = "inputTensor" =>
        /\ ret.res.ok
        /\ Len(ret.res.val) = Len(ret.arg)
        /\ \A k \in 1..Len(ret.arg) :
             /\ \E a \in 0..(Len(all_letters) - 1) :
                    IsIndexOf(a, ret.arg[k]) /\ OneHotAt(ret.res.val[k], a)
             /\ ret.res.val[k][n_letters] = 0

\* a running call of sample can take its next iteration: the loop variable is
\* in range and, when input has a row, every outcome of the cell offers an
\* index to pick (with no row the iteration raises)
CanIterate ==
    /\ in_range(s_i)
    /\ Len(s_input) > 0 =>
          /\ cell_outcomes(rnn, s_category_tensor, s_input[1], s_hidden) # {}
          /\ \A o \in cell_outcomes(rnn, s_category_tensor, s_input[1], s_hidden) : o.picks # {}

\* C5: a call of sample ends after at most max_length invocations of the cell,
\* whatever the weights and the indices drawn: the cell has been invoked s_i
\* times, at most max_length times in all, a running call can always take its
\* next iteration, and every iteration either ends the call or counts one up
C5_SampleTerminates ==
    /\ [](Len(sample_calls) <= max_length)
    /\ [](pc = "sampling" => (s_i < max_length /\ Len(sample_calls) = s_i /\ CanIterate))
    /\ [][pc = "sampling" => (pc' # "sampling" \/ s_i' = s_i + 1)]_vars

\* a call that never drew EOS and returned after max_length invocations
C5_Witness ==
    /\ pc = "idle"
    /\ returned.ok
    /\ Len(sample_calls) = max_length
    /\ Len(returned.val) = Len(s_start_letter) + max_length

\* the completed call of sample and the session's reference greedy call were
\* made with the same weights, category and start string
SameRun ==
    /\ pc = "idle"
    /\ returned.ok
    /\ first # NoRun
    /\ first.rnn = rnn
    /\ first.category = s_category
    /\ first.start_letter = s_start_letter

C7_WindowMean ==
    \A k \in 1..Len(all_losses) :
        /\ k * plot_every <= Len(losses)
        /\ all_losses[k] =
               FracDiv(FracSum(SubSeq(losses, (k - 1) * plot_every + 1, k * plot_every)),
                       plot_every)

\* two checkpoints whose windows hold different losses
C7_Witness ==
    /\ Len(all_losses) >= 2
    /\ all_losses[1] # all_losses[2]
    /\ losses[1] # losses[2]
    /\ all_losses[2] # Zero

\* the corpus of one category "X" holding the single name "A"
SingleNameCorpus == all_categories = <<"X">> /\ category_lines["X"] = <<<<"A">>>>

\* C8: on the corpus of the single name "A" a training step does not fault
\* (its target is the single index EOS, the cell is invoked once and one
\* optimizer update is applied), and sample("X", "A") on the model as
\* initialised does not fault, invokes the cell at most max_length times and
\* can always take its next iteration until it returns
C8_SingleNameCorpus ==
    SingleNameCorpus =>
        /\ pc # "train_fault"
        /\ tr # NoTrain =>
              /\ tr.ok
              /\ tr.target = <<n_letters - 1>>
              /\ Len(tr.calls) = 1
              /\ Cardinality({k \in 1..Len(tr.events) : tr.events[k] = "optimizer.step"}) = 1
              /\ updates >= 1
        /\ (s_category = "X" /\ s_start_letter = <<"A">> /\ updates = 0) =>
              /\ pc # "sample_fault"
              /\ Len(sample_calls) <= max_length
              /\ pc = "sampling" => (s_i < max_length /\ CanIterate)
              /\ pc = "idle" => returned.ok

C8_Witness == SingleNameCorpus /\ tr # NoTrain /\ tr.line = <<"A">> /\ updates = 1

\* C9: categoryTensor raises for every category that is not in
\* all_categories, and sample called with such a category raises before the
\* cell is invoked and before anything is emitted or returned
C9_UnknownCategory ==
    /\ \A c \in CategoryNames : c \notin Range(all_categories) => ~categoryTensor(c).ok
    /\ (s_category # "" /\ s_category \notin Range(all_categories)) =>
          /\ pc = "sample_fault"
          /\ sample_calls = <<>>
          /\ output_name = <<>>
          /\ ~returned.ok

C9_Witness == pc = "sample_fault" /\ s_category = "Z" /\ s_start_letter = <<"A">>

\* C10 as stated: a training step on a string with a symbol outside the
\* alphabet, at any position, raises
C10_Claim == (tr # NoTrain /\ ~InAlphabet(tr.line)) => (~tr.ok /\ pc = "train_fault")

\* C11 as stated: sample called with a start symbol outside the alphabet
\* raises in inputTensor instead of running and returning a string
C11_Claim ==
    (s_category \in Range(all_categories) /\ s_start_letter # <<>> /\ ~InAlphabet(s_start_letter)) =>
        /\ ~inputTensor(s_start_letter).ok
        /\ pc = "sample_fault"
        /\ ~returned.ok

\* C12: a training step on the empty line raises before the cell is invoked,
\* before the backward pass and before the optimizer update, the weights and
\* the count of updates are those before the step, and the run does not go on
C12_EmptyLineFaults ==
    /\ []((tr # NoTrain /\ tr.line = <<>>) =>
             /\ ~tr.ok
             /\ pc = "train_fault"
             /\ tr.calls = <<>>
             /\ \A k \in 1..Len(tr.events) : tr.events[k] \notin {"cell", "backward", "optimizer.step"})
    /\ [][(step' # step /\ tr'.line = <<>>) => (rnn' = rnn /\ updates' = updates)]_vars
    /\ [][pc = "train_fault" => vars' = vars]_vars

\* the empty line is drawn after steps that completed and updated the weights
C12_Witness ==
    /\ pc = "train_fault"
    /\ tr # NoTrain
    /\ tr.line = <<>>
    /\ step >= 2
    /\ updates = step - 1

\* buf is the start string followed by symbols of all_letters only
BufferOk(buf) ==
    /\ Len(buf) >= Len(s_start_letter)
    /\ SubSeq(buf, 1, Len(s_start_letter)) = s_start_letter
    /\ \A k \in (Len(s_start_letter) + 1)..Len(buf) :
         \E j \in 1..Len(all_letters) : all_letters[j] = buf[k]

\* C13: throughout a call of sample the output buffer is the start string
\* followed by one symbol of all_letters per completed iteration, it only ever
\* grows by one such symbol (the end marker has no symbol and is never
\* appended), and the string returned is the buffer as the last iteration
\* left it
C13_Buffer ==
    /\ [](pc = "sampling" =>
             (BufferOk(output_name) /\ Len(output_name) = Len(s_start_letter) + s_i))
    /\ []((pc = "idle" /\ returned.ok) =>
             (BufferOk(returned.val) /\ Len(returned.val) <= Len(s_start_letter) + Len(sample_calls)))
    /\ [][(pc = "sampling" /\ pc' = "sampling") =>
             \E j \in 1..Len(all_letters) : output_name' = Append(output_name, all_letters[j])]_vars
    /\ [][(pc = "sampling" /\ pc' = "idle") =>
             /\ returned'.ok
             /\ \/ returned'.val = output_name
                \/ \E j \in 1..Len(all_letters) : returned'.val = Append(output_name, all_letters[j])]_vars

\* a call that appended letters and then drew the end marker
C13_Witness ==
    /\ pc = "idle"
    /\ returned.ok
    /\ s_start_letter = <<"A">>
    /\ Len(returned.val) = 3
    /\ Len(sample_calls) = 3
    /\ returned.val[2] # returned.val[3]

\* C14: samples(category, start_letters) with a category of all_categories
\* prints one string per symbol of start_letters, in their order, the k-th
\* string beginning with the k-th symbol (with a category that is not in
\* all_categories the first call of sample raises and nothing is printed)
C14_OneLinePerSeed ==
    ret.fn = "samples" =>
        LET category == ret.arg[1]
            start_letters == ret.arg[2]
            lines == ret.res.val
        IN  IF category \in Range(all_categories)
            THEN /\ ret.res.ok
                 /\ Len(lines) = Len(start_letters)
                 /\ \A k \in 1..Len(start_letters) :
                      Len(lines[k]) >= 1 /\ lines[k][1] = start_letters[k]
            ELSE (start_letters # <<>>) => (~ret.res.ok /\ lines = <<>>)

\* two different seeds, each followed by generated letters
C14_Witness ==
    /\ ret.fn = "samples"
    /\ ret.res.ok
    /\ Len(ret.arg[2]) = 2
    /\ ret.arg[2][1] # ret.arg[2][2]
    /\ Len(ret.res.val) = 2
    /\ Len(ret.res.val[1]) > 1
    /\ Len(ret.res.val[2]) > 1

\* a step that is one iteration of sample's loop (the cell was invoked)
Iterated == pc = "sampling" /\ Len(sample_calls') = Len(sample_calls) + 1

\* the index the iteration picked, read off the buffer it left: the index of
\* the letter appended, or the end marker's when nothing was appended
Picked ==
    IF pc' = "sampling" THEN find(output_name'[Len(output_name')])
    ELSE IF returned'.val = output_name THEN n_letters - 1
    ELSE find(returned'.val[Len(returned'.val)])

\* C15 as stated: at every iteration of sample the index picked is the one
\* with the highest output value (for some mask the dropout may have drawn),
\* and the letter picked is the next input
C15_Claim ==
    [][Iterated =>
         /\ \E mask \in Masks(n_letters) :
               Picked = topk(forward(rnn, s_category_tensor, s_input[1], s_hidden, mask).output)
         /\ pc' = "sampling" => (Len(s_input') = 1 /\ OneHotAt(s_input'[1], Picked))]_vars

\* C16 as stated: after the corpus is loaded from any list of files, the
\* entries of all_categories are pairwise distinct, n_categories is the
\* number of files, and category_lines holds every file's lines under the
\* file's category
C16_Claim ==
    ret.fn = "glob" =>
        LET files == ret.arg
        IN  /\ \A j, k \in 1..Len(all_categories) : j # k => all_categories[j] # all_categories[k]
            /\ n_categories = Len(files)
            /\ \A k \in 1..Len(files) :
                 /\ all_categories[k] \in DOMAIN category_lines
                 /\ category_lines[all_categories[k]] = read_lines(files[k])

\* the last checkpoint before step k
LastCheckpoint(k) == ((k - 1) \div plot_every) * plot_every

\* C17 as stated: a telemetry line is printed at every step that is a
\* multiple of print_every and at no other, with the step count, the percent
\* complete and the running average loss: the mean of the losses of the steps
\* since the last checkpoint
C17_Claim ==
    /\ Len(printed) = Len(losses) \div print_every
    /\ \A k \in 1..Len(printed) :
         LET at == printed[k].step
         IN  /\ at = k * print_every
             /\ printed[k].percent = (at * 100) \div n_steps
             /\ printed[k].loss =
                    FracDiv(FracSum(SubSeq(losses, LastCheckpoint(at) + 1, at)),
                            at - LastCheckpoint(at))

\* C18 as stated: no activation is zeroed in a cell invocation made by sample
C18_Original == s_category # "" => ~dropped

\* C18 amended: dropout is active in the cell invocations of sample as it is
\* in training (the module is never switched to evaluation mode): in every
\* invocation made by sample each choice of activations to zero can happen and
\* gives the output of the projection with those activations zeroed, so the
\* cell's output is a function of the weights, the category vector, the input
\* symbol and the hidden state only in the case that nothing is zeroed
C18_DropoutActiveInSample ==
    /\ dropped => Len(sample_calls) >= 1
    /\ (pc = "sampling" /\ Len(s_input) > 0) =>
          LET projected == project(rnn, s_category_tensor, s_input[1], s_hidden)
              outcomes == cell_outcomes(rnn, s_category_tensor, s_input[1], s_hidden)
          IN  /\ \A mask \in Masks(n_letters) :
                   LET masked == [j \in 1..n_letters |-> 10 * projected.output[j] * mask[j]]
                   IN  \E o \in outcomes :
                         /\ o.zeroed = (\E j \in 1..n_letters : mask[j] = 0)
                         /\ o.hidden = projected.hidden
                         /\ o.picks = draw(softmax(masked))
              /\ \A o1, o2 \in outcomes : (~o1.zeroed /\ ~o2.zeroed) => o1 = o2

\* a call of sample that returned after dropout zeroed an activation
C18_Witness ==
    /\ pc = "idle"
    /\ returned.ok
    /\ dropped
    /\ Len(sample_calls) >= 2
    /\ Len(returned.val) > Len(s_start_letter)

\* n invocations of the cell
Cells(n) == [k \in 1..n |-> "cell"]

\* C19: a call of train that completes resets the hidden state and zeroes the
\* gradients, then invokes the cell once per target position, in order, with
\* the category vector, the i-th input row and the hidden state the previous
\* invocation returned (zero for the first), then runs one backward pass and
\* one optimizer update; the updates applied are as many as the steps completed
C19_TrainOrder ==
    /\ []((tr # NoTrain /\ tr.ok) =>
             /\ tr.events = <<"init_hidden", "zero_grad">> \o Cells(Len(tr.target))
                                \o <<"backward", "optimizer.step">>
             /\ Len(tr.calls) = Len(tr.target)
             /\ \A i \in 1..Len(tr.calls) :
                  /\ Len(tr.calls[i].cat) = n_categories
                  /\ OneHotAt(tr.calls[i].cat, index(all_categories, tr.category))
                  /\ tr.calls[i].input = inputTensor(tr.line).val[i]
             /\ \A j \in 1..hidden_size : tr.calls[1].hidden[j] = 0)
    /\ [][(step' # step /\ tr'.ok) =>
             \A i \in 1..(Len(tr'.calls) - 1) :
                 tr'.calls[i + 1].hidden =
                     project(rnn, tr'.calls[i].cat, tr'.calls[i].input, tr'.calls[i].hidden).hidden]_vars
    /\ [](updates = Len(losses))
    /\ [][step' # step => updates' = updates + (IF tr'.ok THEN 1 ELSE 0)]_vars

\* a completed step of two invocations, the second on a hidden state that is
\* not the first's, after an earlier completed step
C19_Witness ==
    /\ tr # NoTrain
    /\ tr.ok
    /\ Len(tr.calls) = 2
    /\ tr.calls[2].hidden # tr.calls[1].hidden
    /\ updates >= 2

\* h is the all-zero hidden vector
IsZero(h) == Len(h) = hidden_size /\ \A j \in 1..Len(h) : h[j] = 0

\* C20: the first invocation of the cell in every call of train and in every
\* call of sample is given the all-zero hidden state, whatever calls came
\* before
C20_HiddenStartsZero ==
    /\ tr.calls # <<>> => IsZero(tr.calls[1].hidden)
    /\ sample_calls # <<>> => IsZero(sample_calls[1].hidden)
    /\ (pc = "sampling" /\ s_i = 0) => IsZero(s_hidden)

\* a call of sample made after a call of train, whose hidden state has moved
\* off zero by its second invocation
C20_Witness ==
    /\ updates >= 1
    /\ Len(sample_calls) >= 2
    /\ IsZero(sample_calls[1].hidden)
    /\ ~IsZero(sample_calls[2].hidden)

\* the letters a completed call of sample appended to its start string
Appended == Len(returned.val) - Len(s_start_letter)

\* C21: every invocation of the cell by sample draws one index, a letter's
\* (appended) or the end marker's.  While the loop runs no end marker has been
\* drawn; a call returns either right after the one invocation that drew the
\* end marker, with the buffer as it stood before that invocation, or without
\* an end marker after exactly max_length invocations; and the cell is not
\* invoked again until sample is called anew
C21_StopsAtEndMarker ==
    /\ [](pc = "sampling" => Len(output_name) = Len(s_start_letter) + Len(sample_calls))
    /\ []((pc = "idle" /\ returned.ok) =>
             \/ Appended = Len(sample_calls) - 1 /\ Len(sample_calls) <= max_length
             \/ Appended = Len(sample_calls) /\ Len(sample_calls) = max_length)
    /\ [][(pc = "sampling" /\ pc' = "idle" /\
            Len(returned'.val) < Len(s_start_letter) + Len(sample_calls')) =>
               (returned'.val = output_name /\ Len(sample_calls') = Len(sample_calls) + 1)]_vars
    /\ [][pc = "idle" => (sample_calls' = sample_calls \/ sample_calls' = <<>>)]_vars

\* a call that appended one letter and drew the end marker in its second
\* invocation
C21_Witness ==
    /\ pc = "idle"
    /\ returned.ok
    /\ s_start_letter = <<"A">>
    /\ Len(sample_calls) = 2
    /\ Len(returned.val) = 2

\* C23: the string sample returns is at most len(start_letter) + max_length
\* symbols long, and is that long only when each of max_length invocations
\* appended a letter (none drew the end marker)
C23_LengthBound ==
    (pc = "idle" /\ returned.ok) =>
        /\ Len(returned.val) <= Len(s_start_letter) + max_length
        /\ Len(returned.val) = Len(s_start_letter) + max_length =>
              (Len(sample_calls) = max_length /\ Appended = Len(sample_calls))

\* a one-symbol seed gives a string of max_length + 1 symbols
C23_Witness ==
    /\ pc = "idle"
    /\ returned.ok
    /\ Len(s_start_letter) = 1
    /\ InAlphabet(s_start_letter)
    /\ Len(returned.val) = max_length + 1

\* C22: the weights change only in a call of train that reaches its
\* optimizer update (and one update is counted for it); a call of samples
\* (and so of sample), of categoryTensor, inputTensor or targetTensor, or of
\* the cell alone leaves the weights as they were; and no call changes
\* all_categories or category_lines
C22_WeightsFrame ==
    /\ [][rnn' # rnn =>
             /\ tr' # NoTrain
             /\ tr'.ok
             /\ tr'.events[Len(tr'.events)] = "optimizer.step"
             /\ updates' = updates + 1
             /\ ret' = ret]_vars
    /\ [][ret' # ret => (rnn' = rnn /\ updates' = updates /\ tr' = tr)]_vars
    /\ [][all_categories' = all_categories /\ category_lines' = category_lines]_vars

\* samples has run to its end on a model that a call of train had updated
C22_Witness ==
    /\ updates >= 1
    /\ tr.ok
    /\ ret.fn = "samples"
    /\ ret.res.ok
    /\ Len(ret.res.val) = 2

\* the steps of the training loop that completed
Completed == Len(losses)

\* C24: after every iteration of the training loop all_losses has one entry
\* per plot_every completed steps (rounded down), loss_avg is the sum of the
\* losses of the steps completed since the last checkpoint (0 right after
\* one), an entry is appended at a checkpoint only, and the loop ends without
\* an entry for a trailing window of fewer than plot_every steps
C24_LossBookkeeping ==
    /\ [](Len(all_losses) = Completed \div plot_every)
    /\ [](loss_avg = FracSum(SubSeq(losses, (Completed \div plot_every) * plot_every + 1, Completed)))
    /\ [](Completed % plot_every = 0 => loss_avg = Zero)
    /\ [][all_losses' # all_losses =>
             /\ Len(losses') % plot_every = 0
             /\ all_losses' = Append(all_losses, FracDiv(FracAdd(loss_avg, losses'[Len(losses')]),
                                                         plot_every))]_vars
    /\ [](step = n_steps => Len(all_losses) * plot_every <= n_steps)
    /\ [][step = n_steps => vars' = vars]_vars

\* the loop has ended with a trailing window that is not full: its losses
\* are in loss_avg and in no entry of all_losses
C24_Witness ==
    /\ step = n_steps
    /\ pc = "idle"
    /\ n_steps % plot_every # 0
    /\ Completed = n_steps
    /\ Len(all_losses) * plot_every < Completed
    /\ loss_avg # Zero
    /\ loss_avg = FracSum(SubSeq(losses, Len(all_losses) * plot_every + 1, Completed))

====
